---- MODULE Spec2Model ----
(***************************************************************************)
(* Fault Line scoring engine: the historical snapshot builder              *)
(* (pipeline/compute_historical_scores.py) and the incremental updater     *)
(* (pipeline/recalculate_scores.py).                                       *)
(*                                                                         *)
(* A date string "YYYY-MM-DD" is modelled by its three fields <<y, m, d>>; *)
(* comparing two such strings is the lexicographic comparison of the       *)
(* fields, and datetime.strptime turns one into a proleptic Gregorian day  *)
(* number (datetime at midnight).                                          *)
(***************************************************************************)
EXTENDS Integers, Sequences, FiniteSets, TLC

VARIABLES
    script,        \* which script this run executes: "historical" | "incremental"
    pc,            \* position of the run inside the script
    events,        \* the loaded event list
    checklist,     \* the loaded checklist catalog (historical script)
    today,         \* datetime.now() as a date <<y, m, d>>
    now_seconds,   \* time of day of datetime.now(), in seconds after midnight
    snapshots,     \* the snapshot list built by compute_all_snapshots
    scores_file,   \* the "scores" list of the current-scores file
    old_scores,    \* the "scores" list recalculate_scores.main read at its start
    reference_date \* reference_date of the latest run of recalculate_scores.main:
                   \* <<date, seconds after midnight>>, None before the first run

vars == <<script, pc, events, checklist, today, now_seconds, snapshots,
          scores_file, old_scores, reference_date>>

----------------------------------------------------------------------------
(* Bounds of the model *)

MaxEvents == 2

----------------------------------------------------------------------------
(* Program constants *)

DECAY_WINDOW_DAYS == 180

LABS == <<"openai", "anthropic", "deepmind", "xai", "meta">>

DIMENSIONS == <<"compute_chips", "cloud", "policy", "demand", "resilience">>

LAB_FOUNDING_DATES ==
    [deepmind  |-> <<2010, 11, 1>>,
     meta      |-> <<2013, 12, 1>>,
     openai    |-> <<2015, 12, 1>>,
     anthropic |-> <<2021, 1, 1>>,
     xai       |-> <<2023, 7, 1>>]

CHECKLIST_ITEMS ==
    <<[id |-> "A1", dimension |-> "compute_chips", points |-> 1],
      [id |-> "A2", dimension |-> "compute_chips", points |-> 1],
      [id |-> "B1", dimension |-> "cloud",         points |-> 1],
      [id |-> "B2", dimension |-> "cloud",         points |-> 1],
      [id |-> "C1", dimension |-> "policy",        points |-> 1],
      [id |-> "C2", dimension |-> "policy",        points |-> 1],
      [id |-> "D1", dimension |-> "demand",        points |-> 1],
      [id |-> "D2", dimension |-> "demand",        points |-> 1],
      [id |-> "E1", dimension |-> "resilience",    points |-> -1],
      [id |-> "E2", dimension |-> "resilience",    points |-> -1]>>

None == [none |-> TRUE]

\* a call that ends in an exception of the given kind
Raised(kind) == [raises |-> kind]

----------------------------------------------------------------------------
(* Generic helpers: Python built-ins *)

Range(s) == {s[i] : i \in DOMAIN s}

Abs(x) == IF x < 0 THEN -x ELSE x

Min2(a, b) == IF a <= b THEN a ELSE b

Max2(a, b) == IF a >= b THEN a ELSE b

RECURSIVE SumSeq(_)
SumSeq(s) == IF s = <<>> THEN 0 ELSE Head(s) + SumSeq(Tail(s))

\* Order of str values: the identifiers the model uses, in ascending order.
StrAscending ==
    <<"A1", "A2", "B1", "B2", "C1", "C2", "D1", "D2", "E1", "E2", "ZZ",
      "anthropic", "deepmind", "meta", "openai", "xai">>

StrIndex(x) == CHOOSE i \in DOMAIN StrAscending : StrAscending[i] = x

StrLt(a, b) == StrIndex(a) < StrIndex(b)

\* sorted(list(S)) for a set of strings
SortedStrs(S) == SelectSeq(StrAscending, LAMBDA x : x \in S)

----------------------------------------------------------------------------
(* Dates *)

IsLeap(y) == (y % 4 = 0) /\ ((y % 100 # 0) \/ (y % 400 = 0))

DaysInMonth(y, m) ==
    IF m = 2 THEN (IF IsLeap(y) THEN 29 ELSE 28)
    ELSE IF m \in {4, 6, 9, 11} THEN 30 ELSE 31

\* days of the year before the first day of month m
DaysBeforeMonth(y, m) ==
    <<0, 31, 59, 90, 120, 151, 181, 212, 243, 273, 304, 334>>[m]
      + (IF m > 2 /\ IsLeap(y) THEN 1 ELSE 0)

\* comparison of two "YYYY-MM-DD" strings (zero padded, so field by field)
DateStrLt(a, b) ==
    \/ a[1] < b[1]
    \/ a[1] = b[1] /\ a[2] < b[2]
    \/ a[1] = b[1] /\ a[2] = b[2] /\ a[3] < b[3]

DateStrLe(a, b) == a = b \/ DateStrLt(a, b)

\* min(...) / max(...) of a non-empty set of date strings
MinDateStr(S) == CHOOSE a \in S : \A b \in S : DateStrLe(a, b)

MaxDateStr(S) == CHOOSE a \in S : \A b \in S : DateStrLe(b, a)

\* datetime.strptime(s, "%Y-%m-%d") accepts s
IsValidDate(s) ==
    /\ Len(s) = 3
    /\ s[1] \in 1..9999
    /\ s[2] \in 1..12
    /\ s[3] \in 1..DaysInMonth(s[1], s[2])

\* datetime.strptime(s, "%Y-%m-%d"), as a day number (date.toordinal)
Strptime(s) ==
    LET y == s[1] - 1
    IN  y * 365 + (y \div 4) - (y \div 100) + (y \div 400)
          + DaysBeforeMonth(s[1], s[2]) + s[3]

\* the day before a date (d - timedelta(days=1))
MinusOneDay(d) ==
    IF d[3] > 1 THEN <<d[1], d[2], d[3] - 1>>
    ELSE IF d[2] > 1 THEN <<d[1], d[2] - 1, DaysInMonth(d[1], d[2] - 1)>>
    ELSE <<d[1] - 1, 12, 31>>

\* an event record without a "date" key carries NoDate
NoDate == <<>>

----------------------------------------------------------------------------
(* compute_historical_scores.py: HistoricalScoreCalculator *)

\* sorted(events, key=lambda x: x.get("date", "")): ascending and stable; the
\* empty string of an event without a date sorts before every date
SortKey(e) == IF e.date = NoDate THEN <<0, 0, 0>> ELSE e.date

LoadEvents(file_events) ==
    LET n == Len(file_events)
        Pos(i) == 1 + Cardinality({j \in 1..n :
                                     DateStrLt(SortKey(file_events[j]), SortKey(file_events[i]))})
                    + Cardinality({j \in 1..(i - 1) :
                                     SortKey(file_events[j]) = SortKey(file_events[i])})
    IN  [p \in 1..n |-> file_events[CHOOSE i \in 1..n : Pos(i) = p]]

RECURSIVE MonthEndLoop(_, _, _)
MonthEndLoop(current, end, dates) ==
    IF ~(Strptime(current) <= Strptime(end)) THEN dates
    ELSE LET month_end ==
                 IF current[2] = 12 THEN <<current[1], 12, 31>>
                 ELSE MinusOneDay(<<current[1], current[2] + 1, 1>>)
             appended ==
                 IF Strptime(month_end) <= Strptime(end)
                 THEN Append(dates, month_end) ELSE dates
             next ==
                 IF current[2] = 12 THEN <<current[1] + 1, 1, 1>>
                 ELSE <<current[1], current[2] + 1, 1>>
         IN  MonthEndLoop(next, end, appended)

\* variant: a month-end equal to the end date is left out
RECURSIVE MonthEndLoopExclusive(_, _, _)
MonthEndLoopExclusive(current, end, dates) ==
    IF ~(Strptime(current) <= Strptime(end)) THEN dates
    ELSE LET month_end ==
                 IF current[2] = 12 THEN <<current[1], 12, 31>>
                 ELSE MinusOneDay(<<current[1], current[2] + 1, 1>>)
             appended ==
                 IF Strptime(month_end) < Strptime(end)
                 THEN Append(dates, month_end) ELSE dates
             next ==
                 IF current[2] = 12 THEN <<current[1] + 1, 1, 1>>
                 ELSE <<current[1], current[2] + 1, 1>>
         IN  MonthEndLoopExclusive(next, end, appended)

GetMonthEndDatesExclusive(start_date, end_date) ==
    MonthEndLoopExclusive(start_date, end_date, <<>>)

GetMonthEndDates(start_date, end_date) ==
    MonthEndLoop(start_date, end_date, <<>>)

\* event.get("date", "2099-01-01")
EventDateOrDefault(e) == IF e.date = NoDate THEN <<2099, 1, 1>> ELSE e.date

\* variant: the window has no upper end
HistInWindowNoUpper(e, snapshot_date, lab) ==
    /\ e.lab = lab
    /\ Strptime(snapshot_date) - DECAY_WINDOW_DAYS <= Strptime(EventDateOrDefault(e))

\* variant: the window is open at its start
HistInWindowOpenStart(e, snapshot_date, lab) ==
    /\ e.lab = lab
    /\ Strptime(snapshot_date) - DECAY_WINDOW_DAYS < Strptime(EventDateOrDefault(e))
    /\ Strptime(EventDateOrDefault(e)) <= Strptime(snapshot_date)

HistInWindow(e, snapshot_date, lab) ==
    /\ e.lab = lab
    /\ Strptime(snapshot_date) - DECAY_WINDOW_DAYS <= Strptime(EventDateOrDefault(e))
    /\ Strptime(EventDateOrDefault(e)) <= Strptime(snapshot_date)

HistGetEventsInWindow(evs, snapshot_date, lab) ==
    SelectSeq(evs, LAMBDA e : HistInWindow(e, snapshot_date, lab))

\* the first catalog item of dim_items with this id
FirstItem(dim_items, item_id) ==
    dim_items[CHOOSE i \in DOMAIN dim_items :
                 /\ dim_items[i].id = item_id
                 /\ \A j \in 1..(i - 1) : dim_items[j].id # item_id]

DimItems(catalog, dimension) ==
    SelectSeq(catalog, LAMBDA item : item.dimension = dimension)

\* variant: the primary dimension of the event is not consulted
HistItemsTriggeredAnyDimension(evs, dimension, catalog) ==
    LET dim_items == DimItems(catalog, dimension)
    IN  {item_id \in UNION {Range(evs[k].checklist_items_affected) : k \in DOMAIN evs} :
            \E i \in DOMAIN dim_items : dim_items[i].id = item_id}

HistItemsTriggered(evs, dimension, catalog) ==
    LET dim_items == DimItems(catalog, dimension)
    IN  {item_id \in UNION {Range(evs[k].checklist_items_affected) :
                              k \in {k \in DOMAIN evs : evs[k].dimension = dimension}} :
            \E i \in DOMAIN dim_items : dim_items[i].id = item_id}

\* variant: the signed point value, without abs()
PointsOfSigned(dim_items, item_id) == FirstItem(dim_items, item_id).points

PointsOf(dim_items, item_id) == Abs(FirstItem(dim_items, item_id).points)

\* variant: every identifier referenced by an event of the dimension is
\* listed, the unknown ones scoring nothing
HistCalculateDimensionScoreUnfiltered(evs, dimension, catalog) ==
    LET dim_items == DimItems(catalog, dimension)
        ids == SortedStrs(HistItemsTriggered(evs, dimension, catalog))
        score == SumSeq([k \in DOMAIN ids |-> PointsOf(dim_items, ids[k])])
        listed == UNION {Range(evs[k].checklist_items_affected) :
                           k \in {k \in DOMAIN evs : evs[k].dimension = dimension}}
    IN  [score |-> Min2(score, 2),
         max |-> 2,
         items_triggered |-> SortedStrs(listed)]

\* variant: the dimension score is not capped
HistCalculateDimensionScoreUncapped(evs, dimension, catalog) ==
    LET dim_items == DimItems(catalog, dimension)
        ids == SortedStrs(HistItemsTriggered(evs, dimension, catalog))
    IN  [score |-> SumSeq([k \in DOMAIN ids |-> PointsOf(dim_items, ids[k])]),
         max |-> 2,
         items_triggered |-> ids]

HistCalculateDimensionScore(evs, dimension, catalog) ==
    LET dim_items == DimItems(catalog, dimension)
        items_triggered == HistItemsTriggered(evs, dimension, catalog)
        ids == SortedStrs(items_triggered)
        score == SumSeq([k \in DOMAIN ids |-> PointsOf(dim_items, ids[k])])
    IN  [score |-> Min2(score, 2),
         max |-> 2,
         items_triggered |-> ids]

\* variant: the difference is not clamped from below
HistTotalNoFloor(breakdown) ==
    Min2(10, breakdown["compute_chips"].score + breakdown["cloud"].score
               + breakdown["policy"].score + breakdown["demand"].score
               - breakdown["resilience"].score)

HistTotal(breakdown) ==
    LET fragility_sum == breakdown["compute_chips"].score + breakdown["cloud"].score
                           + breakdown["policy"].score + breakdown["demand"].score
        resilience == breakdown["resilience"].score
    IN  Max2(0, Min2(10, fragility_sum - resilience))

\* variant: the founding date is not consulted
HistCalculateLabScoreUngated(evs, catalog, snapshot_date, lab) ==
    LET in_window == HistGetEventsInWindow(evs, snapshot_date, lab)
        breakdown == [dim \in Range(DIMENSIONS) |->
                         HistCalculateDimensionScore(in_window, dim, catalog)]
    IN  [total_score |-> HistTotal(breakdown),
         breakdown |-> breakdown,
         events_count |-> Len(in_window),
         last_event_date |->
             IF in_window = <<>> THEN None
             ELSE MaxDateStr({in_window[k].date : k \in DOMAIN in_window})]

\* variant: last_event_date is the latest date of all the lab's events
HistCalculateLabScoreLastOfAll(evs, catalog, snapshot_date, lab) ==
    IF DateStrLt(snapshot_date, LAB_FOUNDING_DATES[lab]) THEN None
    ELSE LET in_window == HistGetEventsInWindow(evs, snapshot_date, lab)
             of_lab == SelectSeq(evs, LAMBDA e : e.lab = lab /\ e.date # NoDate)
             breakdown == [dim \in Range(DIMENSIONS) |->
                              HistCalculateDimensionScore(in_window, dim, catalog)]
         IN  [total_score |-> HistTotal(breakdown),
              breakdown |-> breakdown,
              events_count |-> Len(in_window),
              last_event_date |->
                  IF of_lab = <<>> THEN None
                  ELSE MaxDateStr({of_lab[k].date : k \in DOMAIN of_lab})]

\* max(e.get("date") for e in events) of a non-empty list: the date of a
\* single event, None when that event has no date; with two events or more
\* the dates are compared, which is only possible when none of them is None
HistLastEventDate(in_window) ==
    IF Len(in_window) = 1
    THEN IF in_window[1].date = NoDate THEN None ELSE in_window[1].date
    ELSE MaxDateStr({in_window[k].date : k \in DOMAIN in_window})

\* how _calculate_lab_score ends for a founded lab: "ValueError" when strptime
\* in _get_events_in_window meets an invalid date of the lab, "TypeError" when
\* max() compares the None of an undated event in the window with another
\* event's date, "none" when it returns
HistLabScoreError(evs, snapshot_date, lab) ==
    IF \E k \in DOMAIN evs :
          evs[k].lab = lab /\ ~IsValidDate(EventDateOrDefault(evs[k]))
    THEN "ValueError"
    ELSE IF /\ \E k \in DOMAIN evs : evs[k].lab = lab /\ evs[k].date = NoDate
            /\ LET in_window == HistGetEventsInWindow(evs, snapshot_date, lab)
               IN  /\ Len(in_window) >= 2
                   /\ \E k \in DOMAIN in_window : in_window[k].date = NoDate
    THEN "TypeError"
    ELSE "none"

HistCalculateLabScore(evs, catalog, snapshot_date, lab) ==
    IF DateStrLt(snapshot_date, LAB_FOUNDING_DATES[lab]) THEN None
    ELSE IF HistLabScoreError(evs, snapshot_date, lab) # "none"
    THEN Raised(HistLabScoreError(evs, snapshot_date, lab))
    ELSE LET in_window == HistGetEventsInWindow(evs, snapshot_date, lab)
             breakdown == [dim \in Range(DIMENSIONS) |->
                              HistCalculateDimensionScore(in_window, dim, catalog)]
         IN  [total_score |-> HistTotal(breakdown),
              breakdown |-> breakdown,
              events_count |-> Len(in_window),
              last_event_date |->
                  IF in_window = <<>> THEN None
                  ELSE HistLastEventDate(in_window)]

\* variant: the average is compared without the 0.5 margin
HistTrendNoMargin(snaps, i, lab_id) ==
    IF i < 3 THEN "stable"
    ELSE LET first == Max2(0, i - 3)
             js == [k \in 1..(i - first) |-> first + k - 1]
             defined == SelectSeq(js, LAMBDA j : snaps[j + 1].scores[lab_id] # None)
             prev == [k \in DOMAIN defined |->
                         snaps[defined[k] + 1].scores[lab_id].total_score]
             n == Len(prev)
             current == snaps[i + 1].scores[lab_id].total_score
         IN  IF n = 0 THEN "stable"
             ELSE IF n * current > SumSeq(prev) THEN "worsening"
             ELSE IF n * current < SumSeq(prev) THEN "improving"
             ELSE "stable"

\* the trend of lab_id in the snapshot at 0-based position i
HistTrend(snaps, i, lab_id) ==
    IF i < 3 THEN "stable"
    ELSE LET first == Max2(0, i - 3)
             js == [k \in 1..(i - first) |-> first + k - 1]
             defined == SelectSeq(js, LAMBDA j : snaps[j + 1].scores[lab_id] # None)
             prev == [k \in DOMAIN defined |->
                         snaps[defined[k] + 1].scores[lab_id].total_score]
             n == Len(prev)
             current == snaps[i + 1].scores[lab_id].total_score
         IN  IF n = 0 THEN "stable"
             \* current > sum/n + 0.5, with both sides multiplied by 2n
             ELSE IF 2 * n * current > 2 * SumSeq(prev) + n THEN "worsening"
             ELSE IF 2 * n * current < 2 * SumSeq(prev) - n THEN "improving"
             ELSE "stable"

HistCalculateTrends(snaps) ==
    [k \in DOMAIN snaps |->
        [date |-> snaps[k].date,
         scores |-> [lab_id \in DOMAIN snaps[k].scores |->
                        IF snaps[k].scores[lab_id] = None THEN None
                        ELSE snaps[k].scores[lab_id]
                               @@ [trend |-> HistTrend(snaps, k - 1, lab_id)]]]]

\* list.sort(key=total_score, reverse=True): descending and stable, so entries
\* with equal keys keep the order they had in the list
SortByTotalDesc(pairs) ==
    LET n == Len(pairs)
        Pos(i) == 1 + Cardinality({j \in 1..n : pairs[j][2] > pairs[i][2]})
                    + Cardinality({j \in 1..(i - 1) : pairs[j][2] = pairs[i][2]})
    IN  [p \in 1..n |-> pairs[CHOOSE i \in 1..n : Pos(i) = p]]

\* the (lab_id, total_score) pairs of a snapshot's defined entries, in the
\* insertion order of the scores dict (the order of LABS), then sorted
HistRankOrder(scores_dict) ==
    LET valid == SelectSeq(LABS, LAMBDA lab_id : scores_dict[lab_id] # None)
    IN  SortByTotalDesc([k \in DOMAIN valid |->
                            <<valid[k], scores_dict[valid[k]].total_score>>])

\* variant: competition ranking, labs with equal totals share a rank
HistAddRankingsShared(snaps) ==
    [k \in DOMAIN snaps |->
        [date |-> snaps[k].date,
         scores |-> [lab_id \in DOMAIN snaps[k].scores |->
                        IF snaps[k].scores[lab_id] = None THEN None
                        ELSE snaps[k].scores[lab_id]
                               @@ [rank |-> 1 + Cardinality(
                                      {other \in DOMAIN snaps[k].scores :
                                         /\ snaps[k].scores[other] # None
                                         /\ snaps[k].scores[other].total_score
                                              > snaps[k].scores[lab_id].total_score})]]]]

HistAddRankings(snaps) ==
    [k \in DOMAIN snaps |->
        LET order == HistRankOrder(snaps[k].scores)
        IN  [date |-> snaps[k].date,
             scores |-> [lab_id \in DOMAIN snaps[k].scores |->
                            IF snaps[k].scores[lab_id] = None THEN None
                            ELSE snaps[k].scores[lab_id]
                                   @@ [rank |-> CHOOSE r \in DOMAIN order :
                                                   order[r][1] = lab_id]]]]

\* the date range of compute_all_snapshots (lines 213-221)
HistDateRange(evs, now_date) ==
    LET dates == {evs[k].date : k \in {k \in DOMAIN evs : evs[k].date # NoDate}}
        start_date == MinDateStr(dates)
        last == MaxDateStr(dates)
    IN  <<start_date, IF DateStrLt(last, now_date) THEN now_date ELSE last>>

HistMonthEnds(evs, now_date) ==
    GetMonthEndDates(HistDateRange(evs, now_date)[1], HistDateRange(evs, now_date)[2])

\* the (snapshot, lab) pairs, in the order compute_all_snapshots visits them,
\* at which _calculate_lab_score raises; only an event of the lab with a
\* missing or invalid date can make it raise
HistRaisingPairs(evs, now_date) ==
    {p \in {<<j, l>> : j \in DOMAIN HistMonthEnds(evs, now_date), l \in DOMAIN LABS} :
        /\ ~DateStrLt(HistMonthEnds(evs, now_date)[p[1]], LAB_FOUNDING_DATES[LABS[p[2]]])
        /\ HistLabScoreError(evs, HistMonthEnds(evs, now_date)[p[1]], LABS[p[2]]) # "none"}

\* how compute_all_snapshots ends: "ValueError" from min() of an empty date
\* list or from strptime of an end of the date range in _get_month_end_dates,
\* else the exception of the first _calculate_lab_score call that raises,
\* "none" when the run returns
HistError(evs, now_date) ==
    IF evs = <<>> THEN "none"
    ELSE IF \A k \in DOMAIN evs : evs[k].date = NoDate THEN "ValueError"
    ELSE IF \/ ~IsValidDate(HistDateRange(evs, now_date)[1])
            \/ ~IsValidDate(HistDateRange(evs, now_date)[2])
    THEN "ValueError"
    ELSE IF \A k \in DOMAIN evs :
               evs[k].date # NoDate /\ IsValidDate(evs[k].date)
    THEN "none"
    ELSE LET pairs == HistRaisingPairs(evs, now_date)
         IN  IF pairs = {} THEN "none"
             ELSE LET first == CHOOSE p \in pairs : \A q \in pairs :
                                   \/ p[1] < q[1]
                                   \/ p[1] = q[1] /\ p[2] <= q[2]
                  IN  HistLabScoreError(evs, HistMonthEnds(evs, now_date)[first[1]],
                                        LABS[first[2]])

HistRaises(evs, now_date) == HistError(evs, now_date) # "none"

ComputeAllSnapshotsResult(evs, catalog, now_date) ==
    IF evs = <<>> THEN <<>>
    ELSE IF HistRaises(evs, now_date) THEN Raised(HistError(evs, now_date))
    ELSE LET month_ends == HistMonthEnds(evs, now_date)
             computed == [k \in DOMAIN month_ends |->
                             [date |-> month_ends[k],
                              scores |-> [lab \in Range(LABS) |->
                                  HistCalculateLabScore(evs, catalog, month_ends[k], lab)]]]
         IN  HistAddRankings(HistCalculateTrends(computed))

----------------------------------------------------------------------------
(* recalculate_scores.py *)

SecondsPerDay == 86400

\* get_events_in_window: reference_date is a datetime with a time of day,
\* event dates are datetimes at midnight; an event without a date or with a
\* date strptime rejects is skipped
IncInWindow(e, ref_date, ref_seconds) ==
    /\ e.date # NoDate
    /\ IsValidDate(e.date)
    \* reference_date - event_date, in seconds: cutoff <= event_date <= reference
    \* is 0 <= reference - event_date <= timedelta(days=window_days)
    /\ LET since_event == (Strptime(ref_date) - Strptime(e.date)) * SecondsPerDay
                             + ref_seconds
       IN  0 <= since_event /\ since_event <= DECAY_WINDOW_DAYS * SecondsPerDay

IncGetEventsInWindow(evs, ref_date, ref_seconds) ==
    SelectSeq(evs, LAMBDA e : IncInWindow(e, ref_date, ref_seconds))

IncTriggeredItems(lab_events) ==
    UNION {Range(lab_events[k].checklist_items_affected) : k \in DOMAIN lab_events}

IncDimensionScore(dimension, triggered_items) ==
    LET dim_items == SelectSeq(CHECKLIST_ITEMS, LAMBDA info : info.dimension = dimension)
        triggered_in_dim == SelectSeq(dim_items, LAMBDA info : info.id \in triggered_items)
    IN  [score |-> IF dimension = "resilience" THEN Len(triggered_in_dim)
                   ELSE SumSeq([k \in DOMAIN triggered_in_dim |-> triggered_in_dim[k].points]),
         max |-> 2,
         items_triggered |-> [k \in DOMAIN triggered_in_dim |-> triggered_in_dim[k].id]]

\* variant: the resilience score is added
IncTotalAdded(breakdown) ==
    Max2(0, Min2(10, breakdown["compute_chips"].score + breakdown["cloud"].score
                       + breakdown["policy"].score + breakdown["demand"].score
                       + breakdown["resilience"].score))

IncTotal(breakdown) ==
    LET raw_total == breakdown["compute_chips"].score + breakdown["cloud"].score
                       + breakdown["policy"].score + breakdown["demand"].score
                       - breakdown["resilience"].score
    IN  Max2(0, Min2(10, raw_total))

IncCalculateLabScore(lab_id, active_events) ==
    LET lab_events == SelectSeq(active_events, LAMBDA e : e.lab = lab_id)
        triggered_items == IncTriggeredItems(lab_events)
        breakdown == [dimension \in Range(DIMENSIONS) |->
                         IncDimensionScore(dimension, triggered_items)]
    IN  [lab_id |-> lab_id,
         total_score |-> IncTotal(breakdown),
         breakdown |-> breakdown,
         events_count |-> Len(lab_events),
         last_event_date |->
             IF lab_events = <<>> THEN None
             ELSE MaxDateStr({lab_events[k].date : k \in DOMAIN lab_events})]

\* variant: an unchanged total counts as improving
CalculateTrendNonStrict(current_score, previous_score) ==
    IF current_score <= previous_score THEN "improving"
    ELSE IF current_score > previous_score THEN "worsening"
    ELSE "stable"

CalculateTrend(current_score, previous_score) ==
    IF current_score < previous_score THEN "improving"
    ELSE IF current_score > previous_score THEN "worsening"
    ELSE "stable"

\* variant: a lab without a previous total is compared with 0
PreviousScoreZero(old, lab_id, current) ==
    LET ks == {k \in DOMAIN old : old[k].lab_id = lab_id}
    IN  IF ks = {} THEN 0
        ELSE LET old_data == old[CHOOSE k \in ks : \A j \in ks : j <= k]
             IN  IF "total_score" \in DOMAIN old_data THEN old_data.total_score
                 ELSE 0

\* old_score_lookup.get(lab_id, {}).get("total_score", current): the dict built
\* from the list keeps the last entry of a lab_id
PreviousScore(old, lab_id, current) ==
    LET ks == {k \in DOMAIN old : old[k].lab_id = lab_id}
    IN  IF ks = {} THEN current
        ELSE LET old_data == old[CHOOSE k \in ks : \A j \in ks : j <= k]
             IN  IF "total_score" \in DOMAIN old_data THEN old_data.total_score
                 ELSE current

\* lab_scores.sort(key=lambda x: (-x["total_score"], x["lab_id"]))
IncBefore(a, b) ==
    \/ a.total_score > b.total_score
    \/ a.total_score = b.total_score /\ StrLt(a.lab_id, b.lab_id)

\* x placed into a sorted list, after every entry that does not sort after it
RECURSIVE IncInsert(_, _)
IncInsert(sorted, x) ==
    IF sorted = <<>> THEN <<x>>
    ELSE IF IncBefore(x, Head(sorted)) THEN <<x>> \o sorted
    ELSE <<Head(sorted)>> \o IncInsert(Tail(sorted), x)

RECURSIVE SortByTotalThenId(_)
SortByTotalThenId(list) ==
    IF list = <<>> THEN <<>>
    ELSE IncInsert(SortByTotalThenId(SubSeq(list, 1, Len(list) - 1)), list[Len(list)])

RecalculateResult(evs, old, ref_date, ref_seconds) ==
    LET active_events == IncGetEventsInWindow(evs, ref_date, ref_seconds)
        scored == [k \in DOMAIN LABS |->
                      LET score_data == IncCalculateLabScore(LABS[k], active_events)
                      IN  score_data @@
                            [trend |-> CalculateTrend(score_data.total_score,
                                          PreviousScore(old, LABS[k], score_data.total_score))]]
        sorted == SortByTotalThenId(scored)
    IN  [k \in DOMAIN sorted |-> sorted[k] @@ [rank |-> k]]

----------------------------------------------------------------------------
(* Inputs of a run *)

EventDates == << <<2023, 3, 3>>, <<2023, 3, 4>>, <<2023, 8, 31>> >>

EventLabs == <<"openai", "xai">>

\* the primary dimension of an event and the checklist items it references
EventShapes ==
    <<[dimension |-> "compute_chips", items |-> <<"A1">>],
      [dimension |-> "compute_chips", items |-> <<"A1", "A2">>],
      [dimension |-> "cloud",         items |-> <<"B1", "E1", "ZZ">>],
      [dimension |-> "resilience",    items |-> <<"E1">>]>>

NumEventKinds == Len(EventDates) * Len(EventLabs) * Len(EventShapes)

\* the event of index i, the date being the most significant digit
EventOf(i) ==
    LET shape == EventShapes[(i % Len(EventShapes)) + 1]
        rest == i \div Len(EventShapes)
    IN  [date |-> EventDates[(rest \div Len(EventLabs)) + 1],
         lab |-> EventLabs[(rest % Len(EventLabs)) + 1],
         dimension |-> shape.dimension,
         checklist_items_affected |-> shape.items]

EventUniverse == {EventOf(i) : i \in 0..(NumEventKinds - 1)}

\* event lists of at most MaxEvents events, in ascending date order
EventLists ==
    UNION {{[k \in 1..n |-> EventOf(idx[k])] :
              idx \in {f \in [1..n -> 0..(NumEventKinds - 1)] :
                         \A k \in 1..(n - 1) : f[k] <= f[k + 1]}} :
           n \in 0..MaxEvents}

CatalogWith(a1, e1) ==
    <<[id |-> "A1", dimension |-> "compute_chips", points |-> a1],
      [id |-> "A2", dimension |-> "compute_chips", points |-> 1],
      [id |-> "B1", dimension |-> "cloud",         points |-> 1],
      [id |-> "E1", dimension |-> "resilience",    points |-> e1]>>

Catalogs == {CatalogWith(1, -1), CatalogWith(-3, 2)}

Todays == { <<2023, 8, 30>>, <<2023, 9, 30>> }

\* datetime.now() of the incremental run: <<date, seconds after midnight>>
Nows == { <<(<<2023, 8, 31>>), 0>>, <<(<<2023, 8, 31>>), 43200>>,
          <<(<<2023, 8, 30>>), 43200>> }

ScoreFileWith(v) ==
    <<[lab_id |-> "openai", total_score |-> v],
      [lab_id |-> "xai", total_score |-> v],
      [lab_id |-> "meta"]>>

ScoreFiles == {<<>>, ScoreFileWith(1)}

----------------------------------------------------------------------------
(* The runs *)

InitHistorical ==
    /\ script = "historical"
    /\ pc = "start"
    /\ events \in EventLists
    /\ checklist \in Catalogs
    /\ today \in Todays
    /\ now_seconds = 0
    /\ snapshots = <<>>
    /\ scores_file = <<>>
    /\ old_scores = <<>>
    /\ reference_date = None

InitIncremental ==
    /\ script = "incremental"
    /\ pc = "start"
    /\ events \in EventLists
    /\ checklist = CHECKLIST_ITEMS
    /\ \E now \in Nows : today = now[1] /\ now_seconds = now[2]
    /\ snapshots = <<>>
    /\ scores_file \in ScoreFiles
    /\ old_scores = <<>>
    /\ reference_date = None

Init == InitHistorical \/ InitIncremental

\* compute_historical_scores.main: compute_all_snapshots over the loaded events
ComputeAllSnapshots ==
    /\ script = "historical"
    /\ pc = "start"
    /\ IF HistRaises(events, today)
         THEN pc' = "error" /\ snapshots' = snapshots
         ELSE /\ pc' = "done"
              /\ snapshots' = ComputeAllSnapshotsResult(events, checklist, today)
    /\ UNCHANGED <<script, events, checklist, today, now_seconds, scores_file,
                   old_scores, reference_date>>

\* recalculate_scores.main: reads the scores file, writes the new one
RecalculateScores ==
    /\ script = "incremental"
    /\ pc = "start"
    /\ old_scores' = scores_file
    /\ scores_file' = RecalculateResult(events, scores_file, today, now_seconds)
    /\ reference_date' = <<today, now_seconds>>
    /\ pc' = "done"
    /\ UNCHANGED <<script, events, checklist, today, now_seconds, snapshots>>

Next == ComputeAllSnapshots \/ RecalculateScores

Spec == Init /\ [][Next]_vars

\* classify.merge_with_existing + save_events: a new event is appended to the
\* events file before the historical run loads (and sorts) it
MergeEvent(e) ==
    /\ script = "historical"
    /\ pc = "start"
    /\ Len(events) < MaxEvents
    /\ events' = LoadEvents(Append(events, e))
    /\ UNCHANGED <<script, pc, checklist, today, now_seconds, snapshots,
                   scores_file, old_scores, reference_date>>

InitMerge ==
    /\ script = "historical"
    /\ pc = "start"
    /\ events = <<>>
    /\ checklist \in Catalogs
    /\ today = <<2023, 9, 30>>
    /\ now_seconds = 0
    /\ snapshots = <<>>
    /\ scores_file = <<>>
    /\ old_scores = <<>>
    /\ reference_date = None

NextMerge == (\E e \in EventUniverse : MergeEvent(e)) \/ ComputeAllSnapshots

SpecMerge == InitMerge /\ [][NextMerge]_vars

\* event dates around a year change and a leap-year February
CalendarEventDates ==
    << <<2023, 11, 30>>, <<2023, 12, 31>>, <<2024, 1, 1>>, <<2024, 2, 15>> >>

CalendarEventOf(i) ==
    [date |-> CalendarEventDates[i],
     lab |-> "openai",
     dimension |-> "compute_chips",
     checklist_items_affected |-> <<"A1">>]

CalendarEventLists ==
    UNION {{[k \in 1..n |-> CalendarEventOf(idx[k])] :
              idx \in {f \in [1..n -> DOMAIN CalendarEventDates] :
                         \A k \in 1..(n - 1) : f[k] <= f[k + 1]}} :
           n \in 0..MaxEvents}

CalendarTodays == { <<2023, 11, 29>>, <<2024, 2, 29>>, <<2024, 3, 1>> }

InitCalendar ==
    /\ script = "historical"
    /\ pc = "start"
    /\ events \in CalendarEventLists
    /\ checklist \in Catalogs
    /\ today \in CalendarTodays
    /\ now_seconds = 0
    /\ snapshots = <<>>
    /\ scores_file = <<>>
    /\ old_scores = <<>>
    /\ reference_date = None

NextCalendar == ComputeAllSnapshots

SpecCalendar == InitCalendar /\ [][NextCalendar]_vars

\* event dates of an events file with a missing date and with a date string
\* that is not a calendar day ("2023-04-31")
BadDateEventDates == <<NoDate, <<2023, 3, 3>>, <<2023, 4, 31>>, <<2023, 8, 31>> >>

\* event dates of an events file whose dated events lie in 2099, where the
\* default date "2099-01-01" of an undated event falls into the windows
FarEventDates == <<NoDate, <<2099, 1, 31>>, <<2099, 2, 28>> >>

BadDateEventOf(dates, i) ==
    [date |-> dates[((i - 1) \div Len(EventLabs)) + 1],
     lab |-> EventLabs[((i - 1) % Len(EventLabs)) + 1],
     dimension |-> "compute_chips",
     checklist_items_affected |-> <<"A1">>]

\* the events files of at most MaxEvents events, in any order, with the
\* dates of one of the two lists
BadDateFiles ==
    UNION {[1..n -> {BadDateEventOf(dates, i) :
                       i \in 1..(Len(dates) * Len(EventLabs))}] :
           n \in 0..MaxEvents, dates \in {BadDateEventDates, FarEventDates}}

InitBadDate ==
    /\ script = "historical"
    /\ pc = "start"
    /\ events \in {LoadEvents(file_events) : file_events \in BadDateFiles}
    /\ checklist \in Catalogs
    /\ today \in Todays
    /\ now_seconds = 0
    /\ snapshots = <<>>
    /\ scores_file = <<>>
    /\ old_scores = <<>>
    /\ reference_date = None

NextBadDate == ComputeAllSnapshots

SpecBadDate == InitBadDate /\ [][NextBadDate]_vars

\* the hard-coded catalog as a checklist file, the first item of every
\* dimension weighing p times its points
FullCatalogWith(p) ==
    [k \in DOMAIN CHECKLIST_ITEMS |->
        [id |-> CHECKLIST_ITEMS[k].id,
         dimension |-> CHECKLIST_ITEMS[k].dimension,
         points |-> IF k % 2 = 1 THEN p * CHECKLIST_ITEMS[k].points
                    ELSE CHECKLIST_ITEMS[k].points]]

FullCatalogs == {FullCatalogWith(1), FullCatalogWith(2)}

\* what an event of a dimension may reference: an unknown item only, the first
\* item, both items, or the second item and an unknown one
ItemChoices(dimension) ==
    LET dim_items == DimItems(CHECKLIST_ITEMS, dimension)
    IN  << <<"ZZ">>, <<dim_items[1].id>>, <<dim_items[1].id, dim_items[2].id>>,
           <<dim_items[2].id, "ZZ">> >>

\* one event of one lab in every dimension, all on the same day
DimensionEventLists ==
    {[k \in DOMAIN DIMENSIONS |->
         [date |-> <<2023, 8, 31>>,
          lab |-> "openai",
          dimension |-> DIMENSIONS[k],
          checklist_items_affected |-> ItemChoices(DIMENSIONS[k])[c[k]]]] :
       c \in [DOMAIN DIMENSIONS -> DOMAIN ItemChoices("cloud")]}

InitDimensions ==
    /\ pc = "start"
    /\ events \in DimensionEventLists
    /\ today = <<2023, 8, 31>>
    /\ \/ script = "historical" /\ checklist \in FullCatalogs /\ now_seconds = 0
       \/ script = "incremental" /\ checklist = CHECKLIST_ITEMS /\ now_seconds = 43200
    /\ snapshots = <<>>
    /\ scores_file = <<>>
    /\ old_scores = <<>>
    /\ reference_date = None

SpecDimensions == InitDimensions /\ [][Next]_vars

\* recalculate_scores.main run again: it reads the scores file the run before
\* it wrote
RerunRecalculateScores ==
    /\ script = "incremental"
    /\ pc = "done"
    /\ old_scores' = scores_file
    /\ scores_file' = RecalculateResult(events, scores_file, today, now_seconds)
    /\ reference_date' = <<today, now_seconds>>
    /\ UNCHANGED <<script, pc, events, checklist, today, now_seconds, snapshots>>

\* time passes between two runs: datetime.now() of the next run is later
ClockAdvance ==
    /\ script = "incremental"
    /\ pc = "done"
    /\ \E now \in Nows :
          /\ \/ Strptime(today) < Strptime(now[1])
             \/ today = now[1] /\ now_seconds < now[2]
          /\ today' = now[1]
          /\ now_seconds' = now[2]
    /\ UNCHANGED <<script, pc, events, checklist, snapshots, scores_file,
                   old_scores, reference_date>>

InitRepeat ==
    /\ script = "incremental"
    /\ pc = "start"
    /\ events \in EventLists
    /\ checklist = CHECKLIST_ITEMS
    /\ today = <<2023, 8, 30>>
    /\ now_seconds = 43200
    /\ snapshots = <<>>
    /\ scores_file = ScoreFileWith(1)
    /\ old_scores = <<>>
    /\ reference_date = None

NextRepeat == RecalculateScores \/ RerunRecalculateScores \/ ClockAdvance

SpecRepeat == InitRepeat /\ [][NextRepeat]_vars

----------------------------------------------------------------------------
(* Properties *)

HistDone == script = "historical" /\ pc = "done"

IncDone == script = "incremental" /\ pc = "done"

LabSet == Range(LABS)

DimSet == Range(DIMENSIONS)

\* the entry of a lab in the k-th snapshot
Entry(k, lab) == snapshots[k].scores[lab]

Clamp(lo, hi, x) == IF x < lo THEN lo ELSE IF x > hi THEN hi ELSE x

RawTotal(breakdown) ==
    breakdown["compute_chips"].score + breakdown["cloud"].score
      + breakdown["policy"].score + breakdown["demand"].score
      - breakdown["resilience"].score

\* C1: every computed LabScore has an integer total_score in 0..10, in every
\* snapshot of the historical series and in every entry the updater writes.
C1_TotalScoreInRange ==
    /\ HistDone =>
         \A k \in DOMAIN snapshots : \A lab \in LabSet :
            Entry(k, lab) # None => Entry(k, lab).total_score \in 0..10
    /\ IncDone =>
         \A k \in DOMAIN scores_file : scores_file[k].total_score \in 0..10

\* C1 witness: a historical entry whose resilience score exceeds the sum of the
\* other four, so that the lower clamp decides the total.
C1_Witness ==
    /\ HistDone
    /\ \E k \in DOMAIN snapshots : \E lab \in LabSet :
          /\ Entry(k, lab) # None
          /\ RawTotal(Entry(k, lab).breakdown) < 0
          /\ Entry(k, lab).total_score = 0

\* C2: in the historical series every dimension score lies in 0..2 and every
\* identifier in items_triggered of dimension D is a catalog item of dimension D.
C2_DimensionScoreBounded ==
    HistDone =>
      \A k \in DOMAIN snapshots : \A lab \in LabSet : \A dim \in DimSet :
         Entry(k, lab) # None =>
           /\ Entry(k, lab).breakdown[dim].score \in 0..2
           /\ \A item_id \in Range(Entry(k, lab).breakdown[dim].items_triggered) :
                 \E i \in DOMAIN checklist :
                    checklist[i].id = item_id /\ checklist[i].dimension = dim

\* C2 witness: a catalog with a negative 3-point item, an entry whose
\* compute_chips score is capped at 2 by it, and in the same window a cloud
\* event that also references a resilience item and an unknown item.
C2_Witness ==
    /\ HistDone
    /\ \E i \in DOMAIN checklist : checklist[i].id = "A1" /\ checklist[i].points = -3
    /\ \E k \in DOMAIN snapshots : \E lab \in LabSet :
          /\ Entry(k, lab) # None
          /\ Entry(k, lab).breakdown["compute_chips"].score = 2
          /\ Entry(k, lab).breakdown["compute_chips"].items_triggered = <<"A1">>
          /\ Entry(k, lab).breakdown["cloud"].items_triggered = <<"B1">>
          /\ Entry(k, lab).breakdown["resilience"].items_triggered = <<>>
          /\ \E e \in Range(HistGetEventsInWindow(events, snapshots[k].date, lab)) :
                e.dimension = "cloud" /\ {"E1", "ZZ"} \subseteq Range(e.checklist_items_affected)

\* C3: in every snapshot the ranks of the labs with a defined score are
\* exactly 1..K, K the number of such labs, without repeats; an undefined
\* entry carries no rank.
C3_RanksContiguous ==
    HistDone =>
      \A k \in DOMAIN snapshots :
         LET ranked == {lab \in LabSet : Entry(k, lab) # None}
         IN  /\ \A lab \in ranked : "rank" \in DOMAIN Entry(k, lab)
             /\ {Entry(k, lab).rank : lab \in ranked} = 1..Cardinality(ranked)
             /\ \A a, b \in ranked : a # b => Entry(k, a).rank # Entry(k, b).rank
             /\ \A lab \in LabSet \ ranked : "rank" \notin DOMAIN Entry(k, lab)

\* C3 witness: a series with a snapshot of four ranked labs (xai undefined)
\* and a snapshot of five, two of them with equal non-zero totals.
C3_Witness ==
    /\ HistDone
    /\ \E k \in DOMAIN snapshots :
          /\ Entry(k, "xai") = None
          /\ Cardinality({lab \in LabSet : Entry(k, lab) # None}) = 4
    /\ \E k \in DOMAIN snapshots :
          /\ \A lab \in LabSet : Entry(k, lab) # None
          /\ Entry(k, "openai").total_score = Entry(k, "xai").total_score
          /\ Entry(k, "openai").total_score > 0

\* the events of a lab dated from 180 days before s up to s, by day numbers
ExpectedWindow(s, lab) ==
    SelectSeq(events, LAMBDA e :
        /\ e.lab = lab
        /\ Strptime(s) - Strptime(e.date) \in 0..180)

\* C4: _get_events_in_window returns exactly the events of the lab dated in
\* [s - 180 days, s]; 2023-03-04 is 180 days before 2023-08-31, so an event of
\* that date is in the window of the 2023-08-31 snapshot, one of 2023-03-03 is
\* not, one of 2023-08-31 is, and none is in the window of an earlier snapshot.
C4_WindowClosedInterval ==
    HistDone =>
      \A k \in DOMAIN snapshots : \A lab \in LabSet :
         LET s == snapshots[k].date
             got == HistGetEventsInWindow(events, s, lab)
         IN  /\ got = ExpectedWindow(s, lab)
             /\ Entry(k, lab) # None => Entry(k, lab).events_count = Len(ExpectedWindow(s, lab))
             /\ \A e \in Range(events) :
                   /\ (s = <<2023, 8, 31>> /\ e.lab = lab /\ e.date = <<2023, 3, 4>>)
                        => e \in Range(got)
                   /\ (s = <<2023, 8, 31>> /\ e.date = <<2023, 3, 3>>) => e \notin Range(got)
                   /\ (s = <<2023, 8, 31>> /\ e.lab = lab /\ e.date = <<2023, 8, 31>>)
                        => e \in Range(got)
                   /\ DateStrLt(s, e.date) => e \notin Range(got)

\* C4 witness: openai has one event 181 days and one 180 days before the
\* 2023-08-31 snapshot, whose entry counts one event, the later one.
C4_Witness ==
    /\ HistDone
    /\ \E a, b \in Range(events) :
          /\ a.lab = "openai" /\ a.date = <<2023, 3, 3>>
          /\ b.lab = "openai" /\ b.date = <<2023, 3, 4>>
    /\ \E k \in DOMAIN snapshots :
          /\ snapshots[k].date = <<2023, 8, 31>>
          /\ Entry(k, "openai").events_count = 1
          /\ Entry(k, "openai").last_event_date = <<2023, 3, 4>>

\* the score of a dimension of a lab at snapshot date s, over an event list
ScoreAt(evs, s, lab, dim) ==
    HistCalculateDimensionScore(HistGetEventsInWindow(evs, s, lab), dim, checklist).score

\* e, tagged with dimension D, references a catalog item of dimension D that no
\* event of its lab tagged D in evs references
TriggersNewItem(e, evs) ==
    \E item_id \in Range(e.checklist_items_affected) :
       /\ \E i \in DOMAIN checklist :
             checklist[i].id = item_id /\ checklist[i].dimension = e.dimension
       /\ \A k \in DOMAIN evs :
             (evs[k].lab = e.lab /\ evs[k].dimension = e.dimension)
               => item_id \notin Range(evs[k].checklist_items_affected)

\* the scores of e's dimension with and without e, at every snapshot date of
\* the series computed with e
MonotoneUnder(e, without, with) ==
    \A s \in Range(HistMonthEnds(with, today)) :
       IF Strptime(e.date) <= Strptime(s)
       THEN ScoreAt(with, s, e.lab, e.dimension) >= ScoreAt(without, s, e.lab, e.dimension)
       ELSE ScoreAt(with, s, e.lab, e.dimension) = ScoreAt(without, s, e.lab, e.dimension)

\* C5: when an event that triggers a not yet triggered item of its own
\* dimension D is added for lab L, the score of D for L is not lower at any
\* snapshot date on or after the event's date, and is the same at every
\* snapshot date before it.
C5_Monotone ==
    [][\A e \in EventUniverse :
          (pc = "start" /\ events' = LoadEvents(Append(events, e)) /\ TriggersNewItem(e, events))
            => MonotoneUnder(e, events, events')]_vars

\* the list without its k-th event
Without(list, k) == SubSeq(list, 1, k - 1) \o SubSeq(list, k + 1, Len(list))

\* C5 witness: the event list is an earlier non-empty list plus an event that
\* triggers a new item; at a snapshot date after the event the score of its
\* dimension is higher than without it, and a snapshot date before the event,
\* where the dimension already scores, exists.
C5_Witness ==
    /\ script = "historical" /\ pc = "start"
    /\ \E k \in DOMAIN events :
          LET e == events[k]
              before == Without(events, k)
          IN  /\ before # <<>>
              /\ LoadEvents(Append(before, e)) = events
              /\ TriggersNewItem(e, before)
              /\ \E s \in Range(HistMonthEnds(events, today)) :
                    /\ Strptime(e.date) <= Strptime(s)
                    /\ ScoreAt(events, s, e.lab, e.dimension)
                         > ScoreAt(before, s, e.lab, e.dimension)
              /\ \E s \in Range(HistMonthEnds(events, today)) :
                    /\ Strptime(s) < Strptime(e.date)
                    /\ ScoreAt(before, s, e.lab, e.dimension) > 0

\* C6: a lab's entry is undefined exactly when its founding date is later
\* than the snapshot date, whatever events the lab has.
C6_FoundingGate ==
    HistDone =>
      \A k \in DOMAIN snapshots : \A lab \in LabSet :
         (Entry(k, lab) = None)
           <=> (Strptime(LAB_FOUNDING_DATES[lab]) > Strptime(snapshots[k].date))

\* C6 witness: xai (founded 2023-07-01) has an event of March 2023; its entry
\* is undefined in the March snapshot and defined in the July snapshot.
C6_Witness ==
    /\ HistDone
    /\ \E e \in Range(events) : e.lab = "xai" /\ e.date = <<2023, 3, 4>>
    /\ \E k \in DOMAIN snapshots :
          snapshots[k].date = <<2023, 3, 31>> /\ Entry(k, "xai") = None
    /\ \E k \in DOMAIN snapshots :
          /\ snapshots[k].date = <<2023, 7, 31>>
          /\ Entry(k, "xai") # None
          /\ Entry(k, "xai").events_count = 1

\* the snapshots among the three before position k (1-based) where lab is defined
DefinedBefore(k, lab) == {j \in (k - 3)..(k - 1) : j >= 1 /\ Entry(j, lab) # None}

RECURSIVE SumTotals(_, _)
SumTotals(js, lab) ==
    IF js = {} THEN 0
    ELSE LET j == CHOOSE x \in js : TRUE
         IN  Entry(j, lab).total_score + SumTotals(js \ {j}, lab)

\* the trend the rule gives: twice the difference between the current total and
\* the mean of the preceding defined totals, times their number, against that number
ExpectedTrend(k, lab) ==
    LET js == DefinedBefore(k, lab)
        n == Cardinality(js)
        twice == 2 * (n * Entry(k, lab).total_score - SumTotals(js, lab))
    IN  IF k - 1 < 3 \/ n = 0 THEN "stable"
        ELSE IF twice > n THEN "worsening"
        ELSE IF twice < -n THEN "improving"
        ELSE "stable"

\* C7: in the historical series a defined entry is 'stable' when fewer than 3
\* snapshots precede it or none of the 3 before it is defined for the lab;
\* otherwise it is 'worsening' above the mean of the defined ones plus 0.5,
\* 'improving' below the mean minus 0.5, and 'stable' in between.
C7_HistoricalTrend ==
    HistDone =>
      \A k \in DOMAIN snapshots : \A lab \in LabSet :
         Entry(k, lab) # None =>
           /\ Entry(k, lab).trend \in {"improving", "worsening", "stable"}
           /\ Entry(k, lab).trend = ExpectedTrend(k, lab)

\* C7 witness: one series with an entry that has three snapshots before it, none
\* defined ('stable'), a 'worsening' entry, an 'improving' entry, and an entry
\* exactly 0.5 above the mean of the two defined totals before it ('stable').
C7_Witness ==
    /\ HistDone
    /\ \E k \in DOMAIN snapshots : \E lab \in LabSet :
          k > 3 /\ Entry(k, lab) # None /\ DefinedBefore(k, lab) = {}
            /\ Entry(k, lab).trend = "stable"
    /\ \E k \in DOMAIN snapshots : \E lab \in LabSet :
          Entry(k, lab) # None /\ Entry(k, lab).trend = "worsening"
    /\ \E k \in DOMAIN snapshots : \E lab \in LabSet :
          Entry(k, lab) # None /\ Entry(k, lab).trend = "improving"
    /\ \E k \in DOMAIN snapshots : \E lab \in LabSet :
          /\ k > 3 /\ Entry(k, lab) # None
          /\ Cardinality(DefinedBefore(k, lab)) = 2
          /\ 2 * Entry(k, lab).total_score = SumTotals(DefinedBefore(k, lab), lab) + 1
          /\ Entry(k, lab).trend = "stable"

\* the entries of a lab in a scores list
EntriesOf(list, lab) == {k \in DOMAIN list : list[k].lab_id = lab}

\* C8: the updater's trend of a lab is 'improving' when the new total is below
\* the total read from the previous scores, 'worsening' when above, 'stable'
\* when equal, and 'stable' when the previous scores have no entry or no
\* total_score for the lab.
C8_IncrementalTrend ==
    IncDone =>
      \A lab \in LabSet :
         /\ Cardinality(EntriesOf(scores_file, lab)) = 1
         /\ \A k \in EntriesOf(scores_file, lab) :
               LET new == scores_file[k].total_score
                   had == {j \in EntriesOf(old_scores, lab) :
                             "total_score" \in DOMAIN old_scores[j]}
               IN  /\ had = {} => scores_file[k].trend = "stable"
                   /\ \A j \in had :
                         /\ new < old_scores[j].total_score => scores_file[k].trend = "improving"
                         /\ new > old_scores[j].total_score => scores_file[k].trend = "worsening"
                         /\ new = old_scores[j].total_score => scores_file[k].trend = "stable"

\* the entry of a lab in the written scores
NewEntry(lab) == scores_file[CHOOSE k \in DOMAIN scores_file : scores_file[k].lab_id = lab]

\* C8 witness: previous totals of 1 for openai and xai; the run gives openai 0
\* ('improving') and xai 2 ('worsening'); meta had an entry without a total.
C8_Witness ==
    /\ IncDone
    /\ \E j \in DOMAIN old_scores : old_scores[j].lab_id = "openai" /\ old_scores[j].total_score = 1
    /\ \E j \in DOMAIN old_scores : old_scores[j].lab_id = "xai" /\ old_scores[j].total_score = 1
    /\ NewEntry("openai").total_score = 0 /\ NewEntry("openai").trend = "improving"
    /\ NewEntry("xai").total_score = 2 /\ NewEntry("xai").trend = "worsening"
    /\ NewEntry("meta").trend = "stable"

\* C9: in every snapshot a lab with a higher total has a smaller rank, and of
\* two labs with equal totals the one with the lexically smaller identifier
\* has the smaller rank.
C9_RankOrderWithLexicalTieBreak ==
    HistDone =>
      \A k \in DOMAIN snapshots : \A a, b \in LabSet :
         (Entry(k, a) # None /\ Entry(k, b) # None) =>
           /\ Entry(k, a).total_score > Entry(k, b).total_score
                => Entry(k, a).rank < Entry(k, b).rank
           /\ (Entry(k, a).total_score = Entry(k, b).total_score /\ StrLt(a, b))
                => Entry(k, a).rank < Entry(k, b).rank

\* C10: every defined LabScore has total_score = clamp(0, 10, compute_chips +
\* cloud + policy + demand - resilience) over its own dimension scores, in both
\* scripts; a single compute_chips event that triggers one 1-point
\* compute_chips item gives, where it is in the window, compute_chips 1, every
\* other dimension 0 and total 1.
C10_TotalFormula ==
    /\ HistDone =>
         \A k \in DOMAIN snapshots : \A lab \in LabSet :
            Entry(k, lab) # None =>
              /\ Entry(k, lab).total_score = Clamp(0, 10, RawTotal(Entry(k, lab).breakdown))
              /\ ( /\ Len(events) = 1
                   /\ events[1].lab = lab
                   /\ events[1].dimension = "compute_chips"
                   /\ events[1].checklist_items_affected = <<"A1">>
                   /\ checklist = CatalogWith(1, -1)
                   /\ Strptime(snapshots[k].date) - Strptime(events[1].date) \in 0..180 )
                 => /\ Entry(k, lab).breakdown["compute_chips"].score = 1
                    /\ \A dim \in DimSet \ {"compute_chips"} :
                          Entry(k, lab).breakdown[dim].score = 0
                    /\ Entry(k, lab).total_score = 1
    /\ IncDone =>
         \A k \in DOMAIN scores_file :
            scores_file[k].total_score = Clamp(0, 10, RawTotal(scores_file[k].breakdown))

\* C10 witness: a historical entry with compute_chips 2 and resilience 1, whose
\* total is 1.
C10_Witness ==
    /\ HistDone
    /\ \E k \in DOMAIN snapshots : \E lab \in LabSet :
          /\ Entry(k, lab) # None
          /\ Entry(k, lab).breakdown["compute_chips"].score = 2
          /\ Entry(k, lab).breakdown["resilience"].score = 1
          /\ Entry(k, lab).total_score = 1

\* the catalog items of dimension dim referenced by an event of the list win
\* that is itself tagged dim
ReferencedItems(win, dim) ==
    {i \in DOMAIN checklist :
        /\ checklist[i].dimension = dim
        /\ \E j \in DOMAIN win :
              /\ win[j].dimension = dim
              /\ checklist[i].id \in Range(win[j].checklist_items_affected)}

\* C11: in the historical series the items_triggered of dimension D are
\* exactly the identifiers of catalog items of dimension D referenced by at
\* least one in-window event tagged D, each listed once, in ascending order;
\* the dimension score is min(2, sum of the absolute points of those items).
C11_DimensionScorer ==
    HistDone =>
      \A k \in DOMAIN snapshots : \A lab \in LabSet :
         Entry(k, lab) # None =>
           LET win == ExpectedWindow(snapshots[k].date, lab)
           IN  \A dim \in DimSet :
                  LET refs == ReferencedItems(win, dim)
                      b == Entry(k, lab).breakdown[dim]
                  IN  /\ Range(b.items_triggered) = {checklist[i].id : i \in refs}
                      /\ \A p \in 1..(Len(b.items_triggered) - 1) :
                            StrLt(b.items_triggered[p], b.items_triggered[p + 1])
                      /\ b.score = Min2(2, SumSeq([i \in DOMAIN checklist |->
                                       IF i \in refs THEN Abs(checklist[i].points) ELSE 0]))

\* C11 witness: two in-window compute_chips events of one lab both reference
\* A1 and one of them A2; A1 is listed once, before A2, and with one-point
\* items the score is 2, while a lab whose two events reference only A1 scores 1.
C11_Witness ==
    /\ HistDone
    /\ \A i \in DOMAIN checklist : Abs(checklist[i].points) = 1
    /\ \E k \in DOMAIN snapshots : \E lab \in LabSet :
          /\ Entry(k, lab) # None
          /\ Len(ExpectedWindow(snapshots[k].date, lab)) = 2
          /\ \A e \in Range(ExpectedWindow(snapshots[k].date, lab)) :
                e.dimension = "compute_chips" /\ "A1" \in Range(e.checklist_items_affected)
          /\ \/ /\ Entry(k, lab).breakdown["compute_chips"].items_triggered = <<"A1", "A2">>
                /\ Entry(k, lab).breakdown["compute_chips"].score = 2
             \/ /\ Entry(k, lab).breakdown["compute_chips"].items_triggered = <<"A1">>
                /\ Entry(k, lab).breakdown["compute_chips"].score = 1

\* C12: for the same reference date (the updater's reference instant being
\* that date at midnight, as the historical path parses it), the same events
\* and the hard-coded catalog, the updater gives every founded lab the total,
\* the dimension scores and the triggered sets of the historical lab scorer.
C12_PathsAgree ==
    (IncDone /\ now_seconds = 0) =>
      \A lab \in LabSet :
         ~DateStrLt(today, LAB_FOUNDING_DATES[lab]) =>
           LET hist == HistCalculateLabScore(events, CHECKLIST_ITEMS, today, lab)
           IN  /\ NewEntry(lab).total_score = hist.total_score
               /\ \A dim \in DimSet :
                     /\ NewEntry(lab).breakdown[dim].score = hist.breakdown[dim].score
                     /\ Range(NewEntry(lab).breakdown[dim].items_triggered)
                          = Range(hist.breakdown[dim].items_triggered)

\* the events of a lab whose calendar date lies from 180 days before the
\* date d up to d
CalendarWindow(d, lab) ==
    SelectSeq(events, LAMBDA e :
        /\ e.lab = lab
        /\ Strptime(d) - Strptime(e.date) \in 0..DECAY_WINDOW_DAYS)

\* C13: whatever the time of day of the reference instant, the updater keeps
\* exactly the events whose calendar date lies from 180 days before the
\* reference date up to the reference date, the 180th day included.
C13_IncrementalWindowByCalendarDate ==
    IncDone =>
      \A lab \in LabSet :
         /\ NewEntry(lab).events_count = Len(CalendarWindow(today, lab))
         /\ NewEntry(lab).last_event_date =
               IF CalendarWindow(today, lab) = <<>> THEN None
               ELSE MaxDateStr({e.date : e \in Range(CalendarWindow(today, lab))})

\* the last days of the calendar months, from day number lo to day number hi
MonthEndsBetween(lo, hi, years) ==
    {d \in {<<y, m, DaysInMonth(y, m)>> : y \in years, m \in 1..12} :
        lo <= Strptime(d) /\ Strptime(d) <= hi}

\* C14: the historical run ends without error; with at least one event its
\* snapshots are dated exactly the calendar month-ends d with
\* start <= d <= end, start the earliest event date and end the later of the
\* latest event date and today, once each and in strictly ascending order.
C14_SnapshotDates ==
    (script = "historical" /\ pc # "start") =>
      /\ pc = "done"
      /\ events = <<>> => snapshots = <<>>
      /\ events # <<>> =>
           LET days == {Strptime(events[k].date) : k \in DOMAIN events}
               lo == CHOOSE a \in days : \A b \in days : a <= b
               hi == Max2(CHOOSE a \in days : \A b \in days : b <= a, Strptime(today))
               years == {events[k].date[1] : k \in DOMAIN events} \cup {today[1]}
           IN  /\ {snapshots[k].date : k \in DOMAIN snapshots}
                    = MonthEndsBetween(lo, hi, years)
               /\ \A k \in 1..(Len(snapshots) - 1) :
                     Strptime(snapshots[k].date) < Strptime(snapshots[k + 1].date)

\* C14 witness: the earliest event is dated on a month-end, the range crosses
\* the year change and ends on today, the leap day.
C14_Witness ==
    /\ HistDone
    /\ today = <<2024, 2, 29>>
    /\ [k \in DOMAIN snapshots |-> snapshots[k].date]
         = << <<2023, 11, 30>>, <<2023, 12, 31>>, <<2024, 1, 31>>, <<2024, 2, 29>> >>

\* an event whose date is missing or is not a valid YYYY-MM-DD day
HasBadDate(e) == e.date = NoDate \/ ~IsValidDate(e.date)

\* C15: when an event of a tracked lab has a bad date, the historical run
\* still completes, and in every snapshot the events counted for a lab are
\* the well-dated events of the lab in the window: the bad event is in none.
C15_BadDateTolerated ==
    (/\ script = "historical"
     /\ pc # "start"
     /\ \E k \in DOMAIN events : HasBadDate(events[k]) /\ events[k].lab \in LabSet) =>
      /\ pc = "done"
      /\ \A k \in DOMAIN snapshots : \A lab \in LabSet :
            Entry(k, lab) # None =>
              Entry(k, lab).events_count =
                Len(SelectSeq(events, LAMBDA e :
                      /\ e.lab = lab
                      /\ ~HasBadDate(e)
                      /\ Strptime(snapshots[k].date) - Strptime(e.date)
                            \in 0..DECAY_WINDOW_DAYS))

\* the events with the identifiers that are not in the catalog removed
KnownOnly(evs, catalog) ==
    [k \in DOMAIN evs |->
        [evs[k] EXCEPT !.checklist_items_affected =
            SelectSeq(@, LAMBDA item_id :
                \E i \in DOMAIN catalog : catalog[i].id = item_id)]]

CatalogIds(catalog) == {catalog[i].id : i \in DOMAIN catalog}

\* C16: an identifier referenced by an event but absent from the catalog is
\* ignored by both scripts: the run completes, the identifier is in no
\* items_triggered, and every score, total, trend and rank is what the run
\* gives for the same events without the unknown identifiers.
C16_UnknownItemIgnored ==
    /\ (script = "historical" /\ pc # "start") =>
          /\ pc = "done"
          /\ snapshots = ComputeAllSnapshotsResult(KnownOnly(events, checklist),
                                                   checklist, today)
          /\ \A k \in DOMAIN snapshots : \A lab \in LabSet : \A dim \in DimSet :
                Entry(k, lab) # None =>
                  Range(Entry(k, lab).breakdown[dim].items_triggered)
                    \subseteq CatalogIds(checklist)
    /\ (script = "incremental" /\ pc # "start") =>
          /\ pc = "done"
          /\ scores_file = RecalculateResult(KnownOnly(events, CHECKLIST_ITEMS),
                                             old_scores, today, now_seconds)
          /\ \A k \in DOMAIN scores_file : \A dim \in DimSet :
                Range(scores_file[k].breakdown[dim].items_triggered)
                  \subseteq CatalogIds(CHECKLIST_ITEMS)

\* C16 witness: a historical run whose cloud event references B2 and an
\* unknown identifier and whose policy event references only an unknown one;
\* cloud lists B2 alone and scores 1, policy lists nothing and scores 0.
C16_Witness ==
    /\ HistDone
    /\ \E k \in DOMAIN events :
          events[k].dimension = "cloud" /\ events[k].checklist_items_affected = <<"B2", "ZZ">>
    /\ \E k \in DOMAIN events :
          events[k].dimension = "policy" /\ events[k].checklist_items_affected = <<"ZZ">>
    /\ \E k \in DOMAIN snapshots :
          /\ Entry(k, "openai").events_count = Len(events)
          /\ Entry(k, "openai").breakdown["cloud"].items_triggered = <<"B2">>
          /\ Entry(k, "openai").breakdown["cloud"].score = 1
          /\ Entry(k, "openai").breakdown["policy"].items_triggered = <<>>
          /\ Entry(k, "openai").breakdown["policy"].score = 0

\* C18: no total_score of the historical series exceeds 8.
C18_HistoricalTotalAtMostEight ==
    HistDone =>
      \A k \in DOMAIN snapshots : \A lab \in LabSet :
         Entry(k, lab) # None => Entry(k, lab).total_score <= 8

\* C18 witness: the four additive dimensions each hold items worth 3 points,
\* each is capped at 2, resilience scores 0 and the total is 8.
C18_Witness ==
    /\ HistDone
    /\ \E k \in DOMAIN snapshots :
          /\ Entry(k, "openai").total_score = 8
          /\ Entry(k, "openai").breakdown["resilience"].score = 0
          /\ \A dim \in DimSet \ {"resilience"} :
                /\ Len(Entry(k, "openai").breakdown[dim].items_triggered) = 2
                /\ SumSeq([i \in DOMAIN checklist |->
                       IF checklist[i].dimension = dim
                       THEN Abs(checklist[i].points) ELSE 0]) = 3

\* a score entry with nothing in it
IsZeroScore(entry) ==
    /\ entry.total_score = 0
    /\ \A dim \in DimSet :
          entry.breakdown[dim].score = 0 /\ entry.breakdown[dim].items_triggered = <<>>
    /\ entry.events_count = 0
    /\ entry.last_event_date = None

\* C17: in both scripts a lab with a defined score and no event dated within
\* the 180 days up to the reference date has total 0, every dimension at
\* score 0 with no item triggered, events_count 0 and no last_event_date.
C17_ExpiredLabScoresZero ==
    /\ HistDone =>
          \A k \in DOMAIN snapshots : \A lab \in LabSet :
             (Entry(k, lab) # None /\ ExpectedWindow(snapshots[k].date, lab) = <<>>)
                => IsZeroScore(Entry(k, lab))
    /\ IncDone =>
          \A lab \in LabSet :
             CalendarWindow(today, lab) = <<>> => IsZeroScore(NewEntry(lab))

\* C17 witness: a historical series in which openai has a positive total in
\* one snapshot and, all its events being more than 180 days old, an empty
\* score in a later one.
C17_Witness ==
    /\ HistDone
    /\ \E j, k \in DOMAIN snapshots :
          /\ j < k
          /\ Entry(j, "openai").total_score > 0
          /\ \E e \in Range(events) : e.lab = "openai"
          /\ ExpectedWindow(snapshots[k].date, "openai") = <<>>
          /\ IsZeroScore(Entry(k, "openai"))

\* the entry of a lab in a scores list
EntryIn(list, lab) == list[CHOOSE k \in DOMAIN list : list[k].lab_id = lab]

\* the events in the window of the run that wrote the scores file are the
\* events in the window now
SameWindowAsLastRun ==
    IncGetEventsInWindow(events, reference_date[1], reference_date[2])
      = IncGetEventsInWindow(events, today, now_seconds)

\* C19: a run of the updater on the scores file written by the run before
\* it, with the same events in the window, reports for every lab the same
\* total and rank and the trend 'stable'; and whenever a run reports another
\* trend for a lab, the lab's total differs from the total it read.
C19_RepeatedRunsSettle ==
    /\ [][(RerunRecalculateScores /\ SameWindowAsLastRun) =>
             \A lab \in LabSet :
                /\ EntryIn(scores_file', lab).total_score
                     = EntryIn(scores_file, lab).total_score
                /\ EntryIn(scores_file', lab).rank = EntryIn(scores_file, lab).rank
                /\ EntryIn(scores_file', lab).trend = "stable"]_vars
    /\ [](IncDone =>
             \A lab \in LabSet :
                NewEntry(lab).trend # "stable" =>
                  \E j \in EntriesOf(old_scores, lab) :
                     /\ "total_score" \in DOMAIN old_scores[j]
                     /\ old_scores[j].total_score # NewEntry(lab).total_score)

\* C19 witness: the scores file read by the run was itself written by a run
\* that reported openai as 'worsening' with a positive total; the run on the
\* same window reports the same total and rank with the trend 'stable'.
C19_Witness ==
    /\ IncDone
    /\ SameWindowAsLastRun
    /\ \E j \in DOMAIN old_scores :
          /\ old_scores[j].lab_id = "openai"
          /\ "trend" \in DOMAIN old_scores[j]
          /\ old_scores[j].trend = "worsening"
          /\ old_scores[j].total_score = 2
          /\ NewEntry("openai").total_score = 2
          /\ NewEntry("openai").rank = old_scores[j].rank
          /\ NewEntry("openai").trend = "stable"

====
